---- MODULE Spec2Model ----
(***************************************************************************)
(* Model of lib/loadExternalMethods.js of sequelize-external-methods:      *)
(* overrideWarning, loadGetters, loadSetters, loadPrototypes, loadStatics  *)
(* and the composer loadExternalMethods, acting on one Sequelize Model.    *)
(*                                                                         *)
(* A mapping of methods ({ name: fn, ... }) is a sequence of <<name, fn>>  *)
(* pairs with distinct names: Object.keys / Object.entries iterate a       *)
(* plain object in insertion order.  The regions of the Model are          *)
(* functions from names to their content; the code never iterates them.    *)
(***************************************************************************)
EXTENDS Integers, Sequences, FiniteSets, TLC

VARIABLES Model, call, events, threw, prev, calls, pc

vars == <<Model, call, events, threw, prev, calls, pc>>

\* method names and method definitions (callables, compared by identity);
\* the names are not those of built-in members of a class or of an object
\* (name, length, prototype, constructor, toString, ...)
Names == {"findById", "url"}
Vals == {"existingDef", "methodDef"}

\* number of loader calls made on one Model
MaxCalls == 2

\* the four locations of the override warning, in the composer's call order
Locations == <<"getterMethods", "setterMethods", "prototype", "static">>

\* the four Named Method Objects of the methods argument
Categories == {"getterMethods", "setterMethods", "prototypeMethods", "staticMethods"}

----------------------------------------------------------------------------
(* plain objects *)

\* { name: fn, ... }: every insertion-ordered object over Names and Vals
Mappings ==
  {<<>>}
  \cup {<<(<<n, v>>)>> : n \in Names, v \in Vals}
  \cup {<<(<<n1, v1>>), (<<n2, v2>>)>> :
          <<n1, v1, n2, v2>> \in {q \in Names \X Vals \X Names \X Vals : q[1] # q[3]}}

\* Object.keys(o), in iteration order
ObjectKeys(o) == [i \in 1..Len(o) |-> o[i][1]]

\* the set of own keys of o
KeySet(o) == {o[i][1] : i \in 1..Len(o)}

\* o[name] for an own key of o
Get(o, name) == o[CHOOSE i \in 1..Len(o) : o[i][1] = name][2]

\* {}
EmptyObject == [n \in {} |-> "undefined"]

\* { ...o }: a spread that forgets the existing keys
Spread_withoutBase(base, o) == [n \in KeySet(o) |-> Get(o, n)]

\* { ...base, ...o }: the keys of base, overwritten and extended by those of o
Spread(base, o) ==
  [n \in (DOMAIN base) \cup KeySet(o) |-> IF n \in KeySet(o) THEN Get(o, n) ELSE base[n]]

----------------------------------------------------------------------------
(* properties of Model.prototype *)

\* no property of that name on the object or its prototype chain
Absent ==
  [kind |-> "absent", value |-> "undefined",
   writable |-> FALSE, enumerable |-> FALSE, configurable |-> FALSE]

\* a property found on the prototype chain only (Sequelize.Model.prototype)
Inherited(v) ==
  [kind |-> "inherited", value |-> v,
   writable |-> TRUE, enumerable |-> FALSE, configurable |-> TRUE]

\* Model.prototype.name = v on a name that is not an own property
Assigned(v) ==
  [kind |-> "own", value |-> v,
   writable |-> TRUE, enumerable |-> TRUE, configurable |-> TRUE]

\* name in obj
HasProperty(obj, name) == obj[name].kind # "absent"

\* obj[name]
Resolve(obj, name) == obj[name].value

\* Object.defineProperty(obj, name, { value: method }): absent attributes
\* default to false on a new own property and are kept on an existing one;
\* a non-configurable, non-writable property only accepts its own value
defineProperty(obj, name, method) ==
  LET cur == obj[name] IN
  IF cur.kind # "own"
    THEN [threw |-> FALSE,
          obj |-> [obj EXCEPT ![name] =
                     [kind |-> "own", value |-> method,
                      writable |-> FALSE, enumerable |-> FALSE, configurable |-> FALSE]]]
    ELSE IF ~cur.configurable /\ ~cur.writable /\ cur.value # method
      THEN [threw |-> TRUE, obj |-> obj]
      ELSE [threw |-> FALSE, obj |-> [obj EXCEPT ![name].value = method]]

----------------------------------------------------------------------------
(* console.warn, and the trace of one call *)

\* overrideWarning with its two arguments in the wrong places
overrideWarning_swapped(location, methodName) ==
  "Existing [" \o methodName \o "] method [" \o location
    \o "] overridden by loadExternalMethods"

overrideWarning(location, methodName) ==
  "Existing [" \o location \o "] method [" \o methodName
    \o "] overridden by loadExternalMethods"

\* console.warn(overrideWarning(location, name))
Warn(location, name) ==
  [kind |-> "warn", loc |-> location, name |-> name,
   msg |-> overrideWarning(location, name)]

\* a write of the method called name into the location
Write(location, name) ==
  [kind |-> "write", loc |-> location, name |-> name, msg |-> ""]

\* the TypeError of Object.defineProperty
Throw(location, name) ==
  [kind |-> "throw", loc |-> location, name |-> name,
   msg |-> "TypeError: Cannot redefine property: " \o name]

----------------------------------------------------------------------------
(* Sequelize: Model.refreshAttributes() rebuilds the custom getters and    *)
(* setters of the prototype, and their counts, from Model.options          *)

refreshAttributes(M) ==
  [M EXCEPT !.prototype.customGetters = M.options.getterMethods,
            !.prototype.customSetters = M.options.setterMethods,
            !.prototype.hasCustomGetters = Cardinality(DOMAIN M.options.getterMethods),
            !.prototype.hasCustomSetters = Cardinality(DOMAIN M.options.setterMethods)]

----------------------------------------------------------------------------
(* the loaders; each returns the Model it leaves, the trace of its         *)
(* warnings and writes, and whether it threw                               *)

\* the for loop without its test of methodWillOverride
overrideWarnings_everyKey(location, keys, existing, warn) ==
  IF warn THEN [i \in 1..Len(keys) |-> Warn(location, keys[i])] ELSE <<>>

\* the warnings of the for loop of loadGetters and loadSetters
overrideWarnings(location, keys, existing, warn) ==
  LET overriding == SelectSeq(keys, LAMBDA k : k \in DOMAIN existing)
  IN  IF warn THEN [i \in 1..Len(overriding) |-> Warn(location, overriding[i])]
              ELSE <<>>

\* loadGetters without the call of Model.refreshAttributes()
loadGetters_noRefresh(M, getterMethods, warn) ==
  [Model |-> [M EXCEPT !.options.getterMethods =
                         Spread(M.options.getterMethods, getterMethods)],
   events |-> overrideWarnings("getterMethods", ObjectKeys(getterMethods),
                               M.prototype.customGetters, warn)
                \o [i \in 1..Len(getterMethods) |->
                      Write("getterMethods", getterMethods[i][1])],
   threw |-> FALSE,
   input |-> getterMethods]

\* loadGetters assigning getterMethods alone to Model.options.getterMethods
loadGetters_replacesOptions(M, getterMethods, warn) ==
  [Model |-> refreshAttributes(
               [M EXCEPT !.options.getterMethods = Spread(EmptyObject, getterMethods)]),
   events |-> overrideWarnings("getterMethods", ObjectKeys(getterMethods),
                               M.prototype.customGetters, warn)
                \o [i \in 1..Len(getterMethods) |->
                      Write("getterMethods", getterMethods[i][1])],
   threw |-> FALSE,
   input |-> getterMethods]

loadGetters(M, getterMethods, warn) ==
  LET warnings == overrideWarnings("getterMethods", ObjectKeys(getterMethods),
                                   M.prototype.customGetters, warn)
      merged == [M EXCEPT !.options.getterMethods =
                            Spread(M.options.getterMethods, getterMethods)]
  IN  [Model |-> refreshAttributes(merged),
       events |-> warnings \o [i \in 1..Len(getterMethods) |->
                                 Write("getterMethods", getterMethods[i][1])],
       threw |-> FALSE,
   input |-> getterMethods]

\* loadSetters assigning setterMethods alone to Model.options.setterMethods
loadSetters_replacesOptions(M, setterMethods, warn) ==
  [Model |-> refreshAttributes(
               [M EXCEPT !.options.setterMethods = Spread(EmptyObject, setterMethods)]),
   events |-> overrideWarnings("setterMethods", ObjectKeys(setterMethods),
                               M.prototype.customSetters, warn)
                \o [i \in 1..Len(setterMethods) |->
                      Write("setterMethods", setterMethods[i][1])],
   threw |-> FALSE,
   input |-> setterMethods]

\* loadSetters looking for the names to override among the custom getters
loadSetters_checksGetters(M, setterMethods, warn) ==
  [Model |-> refreshAttributes(
               [M EXCEPT !.options.setterMethods =
                           Spread(M.options.setterMethods, setterMethods)]),
   events |-> overrideWarnings("setterMethods", ObjectKeys(setterMethods),
                               M.prototype.customGetters, warn)
                \o [i \in 1..Len(setterMethods) |->
                      Write("setterMethods", setterMethods[i][1])],
   threw |-> FALSE,
   input |-> setterMethods]

loadSetters(M, setterMethods, warn) ==
  LET warnings == overrideWarnings("setterMethods", ObjectKeys(setterMethods),
                                   M.prototype.customSetters, warn)
      merged == [M EXCEPT !.options.setterMethods =
                            Spread(M.options.setterMethods, setterMethods)]
  IN  [Model |-> refreshAttributes(merged),
       events |-> warnings \o [i \in 1..Len(setterMethods) |->
                                 Write("setterMethods", setterMethods[i][1])],
       threw |-> FALSE,
   input |-> setterMethods]

\* an iteration that looks for an own property only (hasOwnProperty)
loadPrototype_ownOnly(M, trace, prototypeName, method, warn) ==
  LET warned == IF M.prototype.members[prototypeName].kind = "own" /\ warn
                  THEN Append(trace, Warn("prototype", prototypeName))
                  ELSE trace
      defined == defineProperty(M.prototype.members, prototypeName, method)
  IN  IF defined.threw
        THEN [Model |-> M,
              events |-> Append(warned, Throw("prototype", prototypeName)),
              threw |-> TRUE]
        ELSE [Model |-> [M EXCEPT !.prototype.members = defined.obj],
              events |-> Append(warned, Write("prototype", prototypeName)),
              threw |-> FALSE]

\* an iteration that counts a new name as a custom getter
loadPrototype_countsGetter(M, trace, prototypeName, method, warn) ==
  LET exists == HasProperty(M.prototype.members, prototypeName)
      warned == IF exists /\ warn
                  THEN Append(trace, Warn("prototype", prototypeName))
                  ELSE trace
      defined == defineProperty(M.prototype.members, prototypeName, method)
  IN  IF defined.threw
        THEN [Model |-> M,
              events |-> Append(warned, Throw("prototype", prototypeName)),
              threw |-> TRUE]
        ELSE [Model |-> [M EXCEPT !.prototype.members = defined.obj,
                                  !.prototype.hasCustomGetters =
                                    IF exists THEN @ ELSE @ + 1],
              events |-> Append(warned, Write("prototype", prototypeName)),
              threw |-> FALSE]

\* one iteration of the for loop of loadPrototypes
loadPrototype(M, trace, prototypeName, method, warn) ==
  LET warned == IF HasProperty(M.prototype.members, prototypeName) /\ warn
                  THEN Append(trace, Warn("prototype", prototypeName))
                  ELSE trace
      defined == defineProperty(M.prototype.members, prototypeName, method)
  IN  IF defined.threw
        THEN [Model |-> M,
              events |-> Append(warned, Throw("prototype", prototypeName)),
              threw |-> TRUE]
        ELSE [Model |-> [M EXCEPT !.prototype.members = defined.obj],
              events |-> Append(warned, Write("prototype", prototypeName)),
              threw |-> FALSE]

\* the for loop of loadPrototypes from entry i on; a TypeError ends it
RECURSIVE loadPrototypesFrom(_, _, _, _, _)
loadPrototypesFrom(M, trace, prototypeMethods, i, warn) ==
  IF i > Len(prototypeMethods)
    THEN [Model |-> M, events |-> trace, threw |-> FALSE]
    ELSE
      LET done == loadPrototype(M, trace, prototypeMethods[i][1],
                                prototypeMethods[i][2], warn)
      IN  IF done.threw
            THEN done
            ELSE loadPrototypesFrom(done.Model, done.events, prototypeMethods,
                                    i + 1, warn)

loadPrototypes(M, prototypeMethods, warn) ==
  LET looped == loadPrototypesFrom(M, <<>>, prototypeMethods, 1, warn)
  IN  [Model |-> looped.Model, events |-> looped.events, threw |-> looped.threw,
       input |-> prototypeMethods]

\* an iteration that leaves an existing static alone when warn is false
loadStatic_silentKeeps(M, trace, staticName, method, warn) ==
  IF staticName \in DOMAIN M.statics /\ ~warn
    THEN [Model |-> M, events |-> trace, threw |-> FALSE]
    ELSE [Model |-> [M EXCEPT !.statics =
                       [n \in (DOMAIN M.statics) \cup {staticName} |->
                          IF n = staticName THEN method ELSE M.statics[n]]],
          events |-> Append(IF staticName \in DOMAIN M.statics
                              THEN Append(trace, Warn("static", staticName))
                              ELSE trace,
                            Write("static", staticName)),
          threw |-> FALSE]

\* an iteration that warns about an existing static and leaves it in place
loadStatic_keepsExisting(M, trace, staticName, method, warn) ==
  LET exists == staticName \in DOMAIN M.statics
      warned == IF exists /\ warn
                  THEN Append(trace, Warn("static", staticName))
                  ELSE trace
  IN  [Model |-> [M EXCEPT !.statics =
                    [n \in (DOMAIN M.statics) \cup {staticName} |->
                       IF n = staticName /\ ~exists THEN method ELSE M.statics[n]]],
       events |-> Append(warned, Write("static", staticName)),
       threw |-> FALSE]

\* one iteration of the for loop of loadStatics
loadStatic(M, trace, staticName, method, warn) ==
  LET warned == IF staticName \in DOMAIN M.statics /\ warn
                  THEN Append(trace, Warn("static", staticName))
                  ELSE trace
  IN  [Model |-> [M EXCEPT !.statics =
                    [n \in (DOMAIN M.statics) \cup {staticName} |->
                       IF n = staticName THEN method ELSE M.statics[n]]],
       events |-> Append(warned, Write("static", staticName)),
       threw |-> FALSE]

\* the for loop of loadStatics from entry i on
RECURSIVE loadStaticsFrom(_, _, _, _, _)
loadStaticsFrom(M, trace, staticMethods, i, warn) ==
  IF i > Len(staticMethods)
    THEN [Model |-> M, events |-> trace, threw |-> FALSE]
    ELSE
      LET done == loadStatic(M, trace, staticMethods[i][1], staticMethods[i][2], warn)
      IN  loadStaticsFrom(done.Model, done.events, staticMethods, i + 1, warn)

\* loadStatics taking each entry out of staticMethods as it loads it
loadStatics_consumesInput(M, staticMethods, warn) ==
  LET looped == loadStaticsFrom(M, <<>>, staticMethods, 1, warn)
  IN  [Model |-> looped.Model, events |-> looped.events, threw |-> looped.threw,
       input |-> <<>>]

loadStatics(M, staticMethods, warn) ==
  LET looped == loadStaticsFrom(M, <<>>, staticMethods, 1, warn)
  IN  [Model |-> looped.Model, events |-> looped.events, threw |-> looped.threw,
       input |-> staticMethods]

\* const { staticMethods = {}, ... } = methods
Destructure(methods, category) ==
  IF category \in DOMAIN methods THEN methods[category] ELSE <<>>

\* loadExternalMethods with loadStatics as its first call
loadExternalMethods_staticsFirst(M, methods, warn) ==
  LET statics == loadStatics(M, Destructure(methods, "staticMethods"), warn)
      getters == loadGetters(statics.Model, Destructure(methods, "getterMethods"), warn)
      setters == loadSetters(getters.Model, Destructure(methods, "setterMethods"), warn)
      prototypes == loadPrototypes(setters.Model,
                                   Destructure(methods, "prototypeMethods"), warn)
  IN  [Model |-> prototypes.Model,
       events |-> statics.events \o getters.events \o setters.events
                    \o prototypes.events,
       threw |-> prototypes.threw,
       input |-> methods]

\* loadExternalMethods catching the TypeError of loadPrototypes and going on
loadExternalMethods_continues(M, methods, warn) ==
  LET getters == loadGetters(M, Destructure(methods, "getterMethods"), warn)
      setters == loadSetters(getters.Model, Destructure(methods, "setterMethods"), warn)
      prototypes == loadPrototypes(setters.Model,
                                   Destructure(methods, "prototypeMethods"), warn)
      statics == loadStatics(prototypes.Model,
                             Destructure(methods, "staticMethods"), warn)
  IN  [Model |-> statics.Model,
       events |-> getters.events \o setters.events \o prototypes.events
                    \o statics.events,
       threw |-> FALSE,
       input |-> methods]

loadExternalMethods(M, methods, warn) ==
  LET getters == loadGetters(M, Destructure(methods, "getterMethods"), warn)
      setters == loadSetters(getters.Model, Destructure(methods, "setterMethods"), warn)
      prototypes == loadPrototypes(setters.Model,
                                   Destructure(methods, "prototypeMethods"), warn)
      statics == loadStatics(prototypes.Model,
                             Destructure(methods, "staticMethods"), warn)
      ran == [getterMethods |-> getters.input, setterMethods |-> setters.input,
              prototypeMethods |-> prototypes.input,
              staticMethods |-> IF prototypes.threw
                                  THEN Destructure(methods, "staticMethods")
                                  ELSE statics.input]
      left == [c \in DOMAIN methods |-> ran[c]]
  IN  IF prototypes.threw
        THEN [Model |-> prototypes.Model,
              events |-> getters.events \o setters.events \o prototypes.events,
              threw |-> TRUE,
              input |-> left]
        ELSE [Model |-> statics.Model,
              events |-> getters.events \o setters.events \o prototypes.events
                           \o statics.events,
              threw |-> FALSE,
              input |-> left]

----------------------------------------------------------------------------
(* the Model before any loader runs *)

\* { findById: existingDef }: a method defined with the standard Sequelize
\* syntax before the loaders run
PreDefined == [n \in {"findById"} |-> "existingDef"]

\* Model.prototype with nothing under the names of Names
NoMembers == [n \in Names |-> Absent]

\* sequelize.define('Model', {}, { getterMethods, setterMethods }),
\* followed by the direct definitions
define(getterMethods, setterMethods, members, statics) ==
  refreshAttributes(
    [options |-> [getterMethods |-> getterMethods, setterMethods |-> setterMethods],
     prototype |-> [customGetters |-> EmptyObject, customSetters |-> EmptyObject,
                    hasCustomGetters |-> 0, hasCustomSetters |-> 0,
                    members |-> members],
     statics |-> statics])

\* a Model without methods; a Model with findById defined in each location,
\* on the prototype by assignment (Model.prototype.findById = existingDef)
\* or by inheritance from Sequelize.Model.prototype
InitialModels ==
  {define(EmptyObject, EmptyObject, NoMembers, EmptyObject)}
  \cup {define(PreDefined, PreDefined, [NoMembers EXCEPT !["findById"] = d], PreDefined) :
          d \in {Assigned("existingDef"), Inherited("existingDef")}}

----------------------------------------------------------------------------
(* the calls *)

\* the methods argument of a call of one loader
Only(category, mapping) == [c \in {category} |-> mapping]

\* the methods argument of loadExternalMethods: no Named Method Object,
\* one of them, or all four, each holding the same methods
Bundles ==
  {[c \in S |-> m] :
     S \in {{}, Categories} \cup {{c} : c \in Categories}, m \in Mappings}

\* the third argument of a call: omitted, true or false
WarnArguments ==
  {[passed |-> FALSE, value |-> FALSE]}
  \cup {[passed |-> TRUE, value |-> v] : v \in BOOLEAN}

\* a parameter list that leaves warn false when the argument is omitted
defaultWarn_false(argument) == argument.passed /\ argument.value

\* (Model, methods, warn = true): the default value of the parameter warn
defaultWarn(argument) == IF argument.passed THEN argument.value ELSE TRUE

NoCall ==
  [op |-> "none", methods |-> [c \in {} |-> <<>>], warn |-> TRUE, passed |-> TRUE,
   fresh |-> {}, left |-> [c \in {} |-> <<>>]]

NoPrev == [op |-> "none", keys |-> {}, fresh |-> {}]

\* no call is being followed statement by statement
NotRunning == [stage |-> "idle", i |-> 0, refreshes |-> 0]

\* the names of the region a location names
RegionNames(M, location) ==
  CASE location = "getterMethods" -> DOMAIN M.prototype.customGetters
    [] location = "setterMethods" -> DOMAIN M.prototype.customSetters
    [] location = "prototype" -> {n \in Names : HasProperty(M.prototype.members, n)}
    [] location = "static" -> DOMAIN M.statics

\* what name resolves to in the region a location names
RegionValue(M, location, name) ==
  CASE location = "getterMethods" -> M.prototype.customGetters[name]
    [] location = "setterMethods" -> M.prototype.customSetters[name]
    [] location = "prototype" -> Resolve(M.prototype.members, name)
    [] location = "static" -> M.statics[name]

\* the location a Named Method Object is loaded into
LocationOf(category) ==
  CASE category = "getterMethods" -> "getterMethods"
    [] category = "setterMethods" -> "setterMethods"
    [] category = "prototypeMethods" -> "prototype"
    [] category = "staticMethods" -> "static"

\* the <<location, name>> pairs of the methods that are not yet on M
Fresh(M, methods) ==
  {<<LocationOf(c), n>> : <<c, n>> \in
     {q \in Categories \X Names :
        /\ q[1] \in DOMAIN methods
        /\ q[2] \in KeySet(methods[q[1]])
        /\ q[2] \notin RegionNames(M, LocationOf(q[1]))}}

\* a call returns (or throws): its effects and its trace become visible
Returns(op, methods, argument, result) ==
  /\ Model' = result.Model
  /\ events' = result.events
  /\ threw' = result.threw
  /\ call' = [op |-> op, methods |-> methods, warn |-> defaultWarn(argument),
              passed |-> argument.passed, fresh |-> Fresh(Model, methods),
              left |-> IF op = "loadExternalMethods"
                         THEN result.input
                         ELSE [c \in DOMAIN methods |-> result.input]]
  /\ calls' = calls + 1
  /\ UNCHANGED <<prev, pc>>

Idle == call.op = "none" /\ calls < MaxCalls

CallLoadGetters ==
  /\ Idle
  /\ \E getterMethods \in Mappings, argument \in WarnArguments :
       Returns("loadGetters", Only("getterMethods", getterMethods), argument,
               loadGetters(Model, getterMethods, defaultWarn(argument)))

CallLoadSetters ==
  /\ Idle
  /\ \E setterMethods \in Mappings, argument \in WarnArguments :
       Returns("loadSetters", Only("setterMethods", setterMethods), argument,
               loadSetters(Model, setterMethods, defaultWarn(argument)))

CallLoadPrototypes ==
  /\ Idle
  /\ \E prototypeMethods \in Mappings, argument \in WarnArguments :
       Returns("loadPrototypes", Only("prototypeMethods", prototypeMethods), argument,
               loadPrototypes(Model, prototypeMethods, defaultWarn(argument)))

CallLoadStatics ==
  /\ Idle
  /\ \E staticMethods \in Mappings, argument \in WarnArguments :
       Returns("loadStatics", Only("staticMethods", staticMethods), argument,
               loadStatics(Model, staticMethods, defaultWarn(argument)))

CallLoadExternalMethods ==
  /\ Idle
  /\ \E methods \in Bundles, argument \in WarnArguments :
       Returns("loadExternalMethods", methods, argument,
               loadExternalMethods(Model, methods, defaultWarn(argument)))

\* jest.clearAllMocks(): the record of console.warn is reset between calls
clearAllMocks ==
  /\ call.op # "none"
  /\ prev' = [op |-> call.op,
              keys |-> UNION {KeySet(call.methods[c]) : c \in DOMAIN call.methods},
              fresh |-> call.fresh]
  /\ call' = NoCall
  /\ events' = <<>>
  /\ threw' = FALSE
  /\ UNCHANGED <<Model, calls, pc>>

Init ==
  /\ Model \in InitialModels
  /\ call = NoCall
  /\ events = <<>>
  /\ threw = FALSE
  /\ prev = NoPrev
  /\ calls = 0
  /\ pc = NotRunning

Next ==
  \/ CallLoadGetters
  \/ CallLoadSetters
  \/ CallLoadPrototypes
  \/ CallLoadStatics
  \/ CallLoadExternalMethods
  \/ clearAllMocks

Spec == Init /\ [][Next]_vars

----------------------------------------------------------------------------
(* what a call is about *)

Loaders == {"loadGetters", "loadSetters", "loadPrototypes", "loadStatics"}

\* the Named Method Object a loader takes
CategoryOf(op) ==
  CASE op = "loadGetters" -> "getterMethods"
    [] op = "loadSetters" -> "setterMethods"
    [] op = "loadPrototypes" -> "prototypeMethods"
    [] op = "loadStatics" -> "staticMethods"

\* the methods a call loads into a location, {} when it loads none there
Loaded(c, location) ==
  LET given == {cat \in DOMAIN c.methods : LocationOf(cat) = location}
  IN  IF given = {} THEN <<>> ELSE c.methods[CHOOSE cat \in given : TRUE]

LocationSet == {Locations[i] : i \in 1..Len(Locations)}

\* the warnings of a trace
Warnings(trace) == SelectSeq(trace, LAMBDA e : e.kind = "warn")

\* the number of warnings of a trace about a name
WarningsAbout(trace, name) ==
  Cardinality({i \in 1..Len(trace) : trace[i].kind = "warn" /\ trace[i].name = name})

\* the call op(Model, methods, warn) of module.exports
Run(op, M, methods, warn) ==
  CASE op = "loadGetters" -> loadGetters(M, Destructure(methods, "getterMethods"), warn)
    [] op = "loadSetters" -> loadSetters(M, Destructure(methods, "setterMethods"), warn)
    [] op = "loadPrototypes" ->
         loadPrototypes(M, Destructure(methods, "prototypeMethods"), warn)
    [] op = "loadStatics" -> loadStatics(M, Destructure(methods, "staticMethods"), warn)
    [] op = "loadExternalMethods" -> loadExternalMethods(M, methods, warn)

\* the place of a location in the composer's order
Rank(location) == CHOOSE i \in 1..Len(Locations) : Locations[i] = location

\* the messages the documentation gives: Existing [<location>] method
\* [<method name>] overridden by loadExternalMethods
DocumentedWarnings ==
  {<<"getterMethods", "findById",
     "Existing [getterMethods] method [findById] overridden by loadExternalMethods">>,
   <<"getterMethods", "url",
     "Existing [getterMethods] method [url] overridden by loadExternalMethods">>,
   <<"setterMethods", "findById",
     "Existing [setterMethods] method [findById] overridden by loadExternalMethods">>,
   <<"setterMethods", "url",
     "Existing [setterMethods] method [url] overridden by loadExternalMethods">>,
   <<"prototype", "findById",
     "Existing [prototype] method [findById] overridden by loadExternalMethods">>,
   <<"prototype", "url",
     "Existing [prototype] method [url] overridden by loadExternalMethods">>,
   <<"static", "findById",
     "Existing [static] method [findById] overridden by loadExternalMethods">>,
   <<"static", "url",
     "Existing [static] method [url] overridden by loadExternalMethods">>}

----------------------------------------------------------------------------
(* one call, statement by statement: pc.stage is the loader that runs,     *)
(* pc.i the entry its for loop is at, pc.refreshes the number of calls of  *)
(* Model.refreshAttributes() so far; prev keeps the Model the call was     *)
(* given                                                                    *)

\* the Models a call can be given: a Model as defined, or one that
\* loadPrototypes has loaded methods onto before
GivenModels ==
  InitialModels
  \cup {loadPrototypes(M, prototypeMethods, TRUE).Model :
          M \in InitialModels, prototypeMethods \in Mappings}

\* the loader a call starts with
FirstStage(op) ==
  IF op = "loadExternalMethods" THEN "getterMethods" ELSE LocationOf(CategoryOf(op))

\* the loader that runs when the one of a stage has returned
NextStage(op, stage) ==
  IF op # "loadExternalMethods" \/ stage = "static"
    THEN "done"
    ELSE Locations[Rank(stage) + 1]

\* the object the loader of the running stage was given
Given == Loaded(call, pc.stage)

\* an iteration of the for loop of loadGetters that writes the getter
\* itself, as the loader did before it used Model.options
loadGetters_forWrites(M, trace, getterMethods, i, warn) ==
  LET getterName == getterMethods[i][1]
      exists == getterName \in DOMAIN M.prototype.customGetters
  IN  [Model |-> [M EXCEPT !.prototype.customGetters =
                             Spread(@, <<getterMethods[i]>>),
                           !.prototype.hasCustomGetters = IF exists THEN @ ELSE @ + 1],
       events |-> trace \o overrideWarnings("getterMethods", <<getterName>>,
                                            M.prototype.customGetters, warn)]

\* iteration i of the for loop of loadGetters
loadGetters_for(M, trace, getterMethods, i, warn) ==
  [Model |-> M,
   events |-> trace \o overrideWarnings("getterMethods", <<getterMethods[i][1]>>,
                                        M.prototype.customGetters, warn)]

\* iteration i of the for loop of loadSetters
loadSetters_for(M, trace, setterMethods, i, warn) ==
  [Model |-> M,
   events |-> trace \o overrideWarnings("setterMethods", <<setterMethods[i][1]>>,
                                        M.prototype.customSetters, warn)]

\* a for loop that starts over when an iteration throws
afterIteration_retries(p, failed) ==
  IF failed THEN [p EXCEPT !.i = 1] ELSE [p EXCEPT !.i = @ + 1]

\* where a for loop is after an iteration: at the next entry, or out of the
\* call when the iteration threw
afterIteration(p, failed) ==
  IF failed THEN [p EXCEPT !.stage = "done"] ELSE [p EXCEPT !.i = @ + 1]

\* where a call is when the loader of its stage returns
afterLoader(p, op) == [p EXCEPT !.stage = NextStage(op, p.stage), !.i = 1]

\* the writes of a trace
Writes(trace) == SelectSeq(trace, LAMBDA e : e.kind = "write")

StepCall ==
  /\ pc.stage = "idle"
  /\ calls = 0
  /\ \E op \in Loaders \cup {"loadExternalMethods"}, argument \in WarnArguments :
       \E methods \in IF op = "loadExternalMethods"
                        THEN Bundles
                        ELSE {Only(CategoryOf(op), m) : m \in Mappings} :
         /\ call' = [op |-> op, methods |-> methods, warn |-> defaultWarn(argument),
                     passed |-> argument.passed, fresh |-> Fresh(Model, methods),
                     left |-> methods]
         /\ pc' = [stage |-> FirstStage(op), i |-> 1, refreshes |-> 0]
  /\ prev' = [op |-> "none", keys |-> {}, fresh |-> {}, Model |-> Model]
  /\ calls' = calls + 1
  /\ UNCHANGED <<Model, events, threw>>

StepGettersFor ==
  /\ pc.stage = "getterMethods"
  /\ pc.i <= Len(Given)
  /\ LET done == loadGetters_for(Model, events, Given, pc.i, call.warn)
     IN  /\ Model' = done.Model
         /\ events' = done.events
  /\ pc' = afterIteration(pc, FALSE)
  /\ UNCHANGED <<call, threw, prev, calls>>

StepGettersRefresh ==
  /\ pc.stage = "getterMethods"
  /\ pc.i > Len(Given)
  /\ LET done == loadGetters(Model, Given, call.warn)
     IN  /\ Model' = done.Model
         /\ events' = events \o Writes(done.events)
  /\ pc' = [afterLoader(pc, call.op) EXCEPT !.refreshes = @ + 1]
  /\ UNCHANGED <<call, threw, prev, calls>>

StepSettersFor ==
  /\ pc.stage = "setterMethods"
  /\ pc.i <= Len(Given)
  /\ LET done == loadSetters_for(Model, events, Given, pc.i, call.warn)
     IN  /\ Model' = done.Model
         /\ events' = done.events
  /\ pc' = afterIteration(pc, FALSE)
  /\ UNCHANGED <<call, threw, prev, calls>>

StepSettersRefresh ==
  /\ pc.stage = "setterMethods"
  /\ pc.i > Len(Given)
  /\ LET done == loadSetters(Model, Given, call.warn)
     IN  /\ Model' = done.Model
         /\ events' = events \o Writes(done.events)
  /\ pc' = [afterLoader(pc, call.op) EXCEPT !.refreshes = @ + 1]
  /\ UNCHANGED <<call, threw, prev, calls>>

StepPrototypesFor ==
  /\ pc.stage = "prototype"
  /\ pc.i <= Len(Given)
  /\ LET done == loadPrototype(Model, events, Given[pc.i][1], Given[pc.i][2], call.warn)
     IN  /\ Model' = done.Model
         /\ events' = done.events
         /\ threw' = done.threw
         /\ pc' = afterIteration(pc, done.threw)
  /\ UNCHANGED <<call, prev, calls>>

StepPrototypesReturn ==
  /\ pc.stage = "prototype"
  /\ pc.i > Len(Given)
  /\ pc' = afterLoader(pc, call.op)
  /\ UNCHANGED <<Model, call, events, threw, prev, calls>>

StepStaticsFor ==
  /\ pc.stage = "static"
  /\ pc.i <= Len(Given)
  /\ LET done == loadStatic(Model, events, Given[pc.i][1], Given[pc.i][2], call.warn)
     IN  /\ Model' = done.Model
         /\ events' = done.events
         /\ threw' = done.threw
         /\ pc' = afterIteration(pc, done.threw)
  /\ UNCHANGED <<call, prev, calls>>

StepStaticsReturn ==
  /\ pc.stage = "static"
  /\ pc.i > Len(Given)
  /\ pc' = afterLoader(pc, call.op)
  /\ UNCHANGED <<Model, call, events, threw, prev, calls>>

Running ==
  \/ StepGettersFor
  \/ StepGettersRefresh
  \/ StepSettersFor
  \/ StepSettersRefresh
  \/ StepPrototypesFor
  \/ StepPrototypesReturn
  \/ StepStaticsFor
  \/ StepStaticsReturn

StepInit ==
  /\ Model \in GivenModels
  /\ call = NoCall
  /\ events = <<>>
  /\ threw = FALSE
  /\ prev = NoPrev
  /\ calls = 0
  /\ pc = NotRunning

StepNext == StepCall \/ Running

\* the loaders are synchronous code: a call that has started keeps running
StepSpec == StepInit /\ [][StepNext]_vars /\ WF_vars(Running)

----------------------------------------------------------------------------
(* the claims *)

\* C1: each of the four loaders, run on a Model whose targeted region is
\* empty, leaves every name of its methods resolving to the given method in
\* that region (_customGetters, _customSetters, Model.prototype, Model).
C1_LoadsIntoEmptyRegion ==
  [][\A op \in Loaders :
       LET location == LocationOf(CategoryOf(op))
           given == Loaded(call', location)
       IN  (call'.op = op /\ RegionNames(Model, location) = {})
             => \A n \in KeySet(given) :
                  /\ n \in RegionNames(Model', location)
                  /\ RegionValue(Model', location, n) = Get(given, n)]_vars

\* two new prototype methods were loaded onto a prototype without methods
C1_Witness ==
  /\ call.op = "loadPrototypes"
  /\ call.fresh = {"prototype"} \X Names
  /\ ~threw
  /\ \A n \in Names : Resolve(Model.prototype.members, n)
                        = Get(call.methods["prototypeMethods"], n)

\* C2: last write wins: when a loader loads a name and the next call of the
\* same loader loads that name again, the region holds the second method.
C2_LastWriteWins ==
  [][\A op \in Loaders :
       LET location == LocationOf(CategoryOf(op))
           given == Loaded(call', location)
       IN  (call'.op = op /\ prev.op = op)
             => \A n \in KeySet(given) \cap prev.keys :
                  RegionValue(Model', location, n) = Get(given, n)]_vars

\* C3: a call changes no entry of a region it loads into that it does not
\* name, and no region loses a name.
C3_OtherEntriesKept ==
  [][call'.op # "none"
       => \A location \in LocationSet :
            /\ RegionNames(Model, location) \subseteq RegionNames(Model', location)
            /\ (call'.op = "loadExternalMethods"
                  \/ location = LocationOf(CategoryOf(call'.op)))
                 => \A n \in RegionNames(Model, location)
                              \ KeySet(Loaded(call', location)) :
                      RegionValue(Model', location, n)
                        = RegionValue(Model, location, n)]_vars

\* a getter was loaded next to an existing getter, which is still there
C3_Witness ==
  /\ call.op = "loadGetters"
  /\ KeySet(call.methods["getterMethods"]) = {"url"}
  /\ "findById" \in DOMAIN Model.prototype.customGetters
  /\ Model.prototype.customGetters["findById"] = "existingDef"

\* C4: with warn = true a loader call emits exactly one warning for each of
\* its names that was in the targeted region before the call and none for
\* any other name, each being overrideWarning(location, name).
C4_OneWarningPerExistingName ==
  [][\A op \in Loaders :
       LET location == LocationOf(CategoryOf(op))
           given == Loaded(call', location)
       IN  (call'.op = op /\ call'.warn)
             => /\ \A n \in Names :
                     WarningsAbout(events', n)
                       = IF n \in KeySet(given) \cap RegionNames(Model, location)
                           THEN 1 ELSE 0
                /\ \A i \in 1..Len(events') :
                     events'[i].kind = "warn"
                       => /\ events'[i].loc = location
                          /\ events'[i].msg
                               = overrideWarning(location, events'[i].name)]_vars

\* C5: from a region without the name n, two successive loads of { n: fn }
\* by the same loader with warn = true emit no warning in the first call and
\* exactly one warning, about n, in the second.
C5_SecondLoadWarnsOnce ==
  [][\A op \in Loaders, n \in Names :
       LET location == LocationOf(CategoryOf(op))
       IN  (call'.op = op /\ call'.warn /\ KeySet(Loaded(call', location)) = {n})
             => /\ n \notin RegionNames(Model, location)
                     => Len(Warnings(events')) = 0
                /\ (prev.op = op /\ prev.keys = {n} /\ prev.fresh = {<<location, n>>})
                     => /\ Len(Warnings(events')) = 1
                        /\ WarningsAbout(events', n) = 1]_vars

\* findById was loaded as a new prototype method, and then loaded again
C5_Witness ==
  /\ prev.op = "loadPrototypes"
  /\ prev.keys = {"findById"}
  /\ prev.fresh = {<<"prototype", "findById">>}
  /\ call.op = "loadPrototypes"
  /\ call.warn
  /\ KeySet(call.methods["prototypeMethods"]) = {"findById"}
  /\ Len(Warnings(events)) = 1

\* C6: a call with warn = false emits no warning, and every call leaves the
\* Model (and ends) as the same call with the other value of warn does.
C6_WarnOnlyObserved ==
  [][call'.op # "none"
       => LET other == Run(call'.op, Model, call'.methods, ~call'.warn)
          IN  /\ ~call'.warn => Len(Warnings(events')) = 0
              /\ Model' = other.Model
              /\ threw' = other.threw]_vars

\* all four Named Method Objects were loaded over existing methods with
\* warn = false
C6_Witness ==
  /\ call.op = "loadExternalMethods"
  /\ ~call.warn
  /\ DOMAIN call.methods = Categories
  /\ \A c \in Categories : call.methods[c] # <<>>
  /\ call.fresh = {}
  /\ Len(Warnings(events)) = 0
  /\ ~threw

\* C7: a call of loadGetters (loadSetters) adds to _hasCustomGetters
\* (_hasCustomSetters) the number of its names that were not yet in
\* _customGetters (_customSetters).
C7_CountGrowsByNewNames ==
  [][/\ call'.op = "loadGetters"
          => Model'.prototype.hasCustomGetters
               = Model.prototype.hasCustomGetters
                   + Cardinality(KeySet(Loaded(call', "getterMethods"))
                                   \ DOMAIN Model.prototype.customGetters)
     /\ call'.op = "loadSetters"
          => Model'.prototype.hasCustomSetters
               = Model.prototype.hasCustomSetters
                   + Cardinality(KeySet(Loaded(call', "setterMethods"))
                                   \ DOMAIN Model.prototype.customSetters)]_vars

\* two getters were loaded, one new and one overriding
C7_Witness ==
  /\ call.op = "loadGetters"
  /\ KeySet(call.methods["getterMethods"]) = Names
  /\ call.fresh = {<<"getterMethods", "url">>}
  /\ Model.prototype.hasCustomGetters = 2

\* C8: the counts are the numbers of names of _customGetters and of
\* _customSetters in every state, and no step decreases either count.
C8_CountsMatchRegions ==
  /\ [](/\ Model.prototype.hasCustomGetters
            = Cardinality(DOMAIN Model.prototype.customGetters)
        /\ Model.prototype.hasCustomSetters
            = Cardinality(DOMAIN Model.prototype.customSetters))
  /\ [][/\ Model'.prototype.hasCustomGetters >= Model.prototype.hasCustomGetters
        /\ Model'.prototype.hasCustomSetters >= Model.prototype.hasCustomSetters]_vars

\* two setters were loaded over the two setters of the Model
C8_Witness ==
  /\ call.op = "loadSetters"
  /\ KeySet(call.methods["setterMethods"]) = Names
  /\ call.fresh = {}
  /\ Model.prototype.hasCustomSetters = 2

\* C9: overrideWarning(location, methodName) is the documented message for
\* every location and name, and so is the message of every warning emitted.
C9_MessageShape ==
  /\ \A location \in LocationSet, n \in Names :
       <<location, n, overrideWarning(location, n)>> \in DocumentedWarnings
  /\ \A i \in 1..Len(events) :
       events[i].kind = "warn"
         => <<events[i].loc, events[i].name, events[i].msg>> \in DocumentedWarnings

\* the warning of the documentation's example was emitted
C9_Witness ==
  \E i \in 1..Len(events) :
    /\ events[i].kind = "warn"
    /\ events[i].loc = "static"
    /\ events[i].name = "findById"
    /\ events[i].msg
         = "Existing [static] method [findById] overridden by loadExternalMethods"

\* C10: loadExternalMethods runs loadGetters, loadSetters, loadPrototypes and
\* loadStatics in that order, each on the Model the one before left: the
\* trace never goes back to an earlier location, and the trace and the Model
\* are those of the four calls made in sequence.
C10_ComposerOrder ==
  [][call'.op = "loadExternalMethods"
       => \A getters \in {loadGetters(Model, Loaded(call', "getterMethods"), call'.warn)} :
          \A setters \in {loadSetters(getters.Model, Loaded(call', "setterMethods"),
                                      call'.warn)} :
          \A prototypes \in {loadPrototypes(setters.Model, Loaded(call', "prototype"),
                                            call'.warn)} :
          \A statics \in {loadStatics(prototypes.Model, Loaded(call', "static"),
                                      call'.warn)} :
            /\ \A i, j \in 1..Len(events') :
                 i < j => Rank(events'[i].loc) <= Rank(events'[j].loc)
            /\ events' = getters.events \o setters.events \o prototypes.events
                           \o (IF prototypes.threw THEN <<>> ELSE statics.events)
            /\ Model' = IF prototypes.threw THEN prototypes.Model ELSE statics.Model
            /\ threw' = prototypes.threw]_vars

\* one call of loadExternalMethods warned about all four locations
C10_Witness ==
  /\ call.op = "loadExternalMethods"
  /\ {events[i].loc : i \in {k \in 1..Len(events) : events[k].kind = "warn"}}
       = LocationSet
  /\ ~threw

\* the Model with its getters and its setters in each other's place
SwapAccessors(M) ==
  [M EXCEPT !.options = [getterMethods |-> M.options.setterMethods,
                         setterMethods |-> M.options.getterMethods],
            !.prototype.customGetters = M.prototype.customSetters,
            !.prototype.customSetters = M.prototype.customGetters,
            !.prototype.hasCustomGetters = M.prototype.hasCustomSetters,
            !.prototype.hasCustomSetters = M.prototype.hasCustomGetters]

\* a trace with the other of the two accessor locations as its tag
Retag(trace) ==
  [i \in 1..Len(trace) |->
     LET location == IF trace[i].loc = "getterMethods" THEN "setterMethods"
                                                       ELSE "getterMethods"
     IN  IF trace[i].kind = "warn" THEN Warn(location, trace[i].name)
                                   ELSE Write(location, trace[i].name)]

\* the events of a trace that are writes into a location
WritesInto(trace, location) ==
  {trace[i].name : i \in {k \in 1..Len(trace) :
                            trace[k].kind = "write" /\ trace[k].loc = location}}

\* C11: a call that is given no method (no Named Method Object, or empty
\* ones only) leaves the Model as it was, writes nothing, warns about nothing
\* and does not throw.
C11_NothingLoadedNothingChanged ==
  [][(call'.op # "none" /\ \A c \in DOMAIN call'.methods : call'.methods[c] = <<>>)
       => /\ Model' = Model
          /\ events' = <<>>
          /\ ~threw']_vars

\* loadExternalMethods(Model, {}) ran on a Model that has methods
C11_Witness ==
  /\ call.op = "loadExternalMethods"
  /\ DOMAIN call.methods = {}
  /\ Model.prototype.hasCustomGetters = 1
  /\ Model.prototype.hasCustomSetters = 1
  /\ DOMAIN Model.statics # {}
  /\ events = <<>>

C14_NoRollback ==
  [][call'.op = "loadExternalMethods"
       => /\ threw' <=> \E i \in 1..Len(events') : events'[i].kind = "throw"
          /\ threw' =>
               /\ events'[Len(events')].kind = "throw"
               /\ \A n \in KeySet(Loaded(call', "getterMethods")) :
                    /\ n \in DOMAIN Model'.prototype.customGetters
                    /\ Model'.prototype.customGetters[n]
                         = Get(Loaded(call', "getterMethods"), n)
               /\ \A n \in KeySet(Loaded(call', "setterMethods")) :
                    /\ n \in DOMAIN Model'.prototype.customSetters
                    /\ Model'.prototype.customSetters[n]
                         = Get(Loaded(call', "setterMethods"), n)
               /\ \A n \in WritesInto(events', "prototype") :
                    Resolve(Model'.prototype.members, n)
                      = Get(Loaded(call', "prototype"), n)
               /\ WritesInto(events', "static") = {}
               /\ \A i \in 1..Len(events') : events'[i].loc # "static"
               /\ Model'.statics = Model.statics]_vars

\* a call of loadExternalMethods with all four Named Method Objects loaded
\* new getters and setters, wrote one prototype method, threw on the next,
\* and left the static methods it was given unloaded
C14_Witness ==
  /\ call.op = "loadExternalMethods"
  /\ threw
  /\ DOMAIN call.methods = Categories
  /\ {<<"getterMethods", n>> : n \in Names} \subseteq call.fresh
  /\ {<<"static", n>> : n \in Names} \subseteq call.fresh
  /\ WritesInto(events, "prototype") # {}
  /\ DOMAIN Model.statics = {}
  /\ Model.prototype.hasCustomGetters = 2

\* C15: a call of a loader that overrides an existing method does not throw,
\* writes every method it is given, and leaves the given method under every
\* name it overrides.
C15_OverrideNeverFails ==
  [][call'.op \in Loaders
       => LET location == LocationOf(CategoryOf(call'.op))
              given == call'.methods[CategoryOf(call'.op)]
          IN  /\ ~threw'
              /\ WritesInto(events', location) = KeySet(given)
              /\ \A n \in KeySet(given) \cap RegionNames(Model, location) :
                   RegionValue(Model', location, n) = Get(given, n)]_vars

\* C16: the first call on a Model, loadExternalMethods with warn = true,
\* warns about every name that is defined in a location and is among the
\* methods given for that location, naming both.
C16_WarnsAboutEarlierDefinitions ==
  [][(calls = 0 /\ call'.op = "loadExternalMethods" /\ call'.warn)
       => \A location \in LocationSet :
            \A n \in RegionNames(Model, location) \cap KeySet(Loaded(call', location)) :
              \E i \in 1..Len(events') :
                /\ events'[i].kind = "warn"
                /\ events'[i].loc = location
                /\ events'[i].name = n
                /\ <<location, n, events'[i].msg>> \in DocumentedWarnings]_vars

\* the first call on a Model with findById defined in each location was
\* loadExternalMethods with findById among the methods for each location
C16_Witness ==
  /\ calls = 1
  /\ call.op = "loadExternalMethods"
  /\ call.warn
  /\ DOMAIN call.methods = Categories
  /\ \A c \in Categories : "findById" \in KeySet(call.methods[c])
  /\ \A location \in LocationSet : <<location, "findById">> \notin call.fresh
  /\ Len(Warnings(events)) = 4

\* C17: a call without the warn argument has the warnings, the Model and the
\* end of the same call with warn = true.
C17_WarnDefaultsToTrue ==
  [][(call'.op # "none" /\ ~call'.passed)
       => LET explicit == Run(call'.op, Model, call'.methods, TRUE)
          IN  /\ events' = explicit.events
              /\ Model' = explicit.Model
              /\ threw' = explicit.threw]_vars

\* loadExternalMethods(Model, methods), without warn, warned
C17_Witness ==
  /\ call.op = "loadExternalMethods"
  /\ ~call.passed
  /\ Len(Warnings(events)) > 0
  /\ ~threw

\* C19: loadSetters leaves the Model that loadGetters leaves when getters and
\* setters are in each other's place, with the same trace but for the
\* location; and loadGetters does so with respect to loadSetters.
C19_SettersAsGetters ==
  [][/\ call'.op = "loadSetters"
          => LET given == call'.methods["setterMethods"]
                 other == loadGetters(SwapAccessors(Model), given, call'.warn)
             IN  /\ Model' = SwapAccessors(other.Model)
                 /\ events' = Retag(other.events)
                 /\ Model'.prototype.customSetters = other.Model.prototype.customGetters
                 /\ Model'.prototype.hasCustomSetters
                      = other.Model.prototype.hasCustomGetters
     /\ call'.op = "loadGetters"
          => LET given == call'.methods["getterMethods"]
                 other == loadSetters(SwapAccessors(Model), given, call'.warn)
             IN  /\ Model' = SwapAccessors(other.Model)
                 /\ events' = Retag(other.events)]_vars

\* loadSetters loaded one new setter and replaced one, with one warning, on
\* a Model whose getters differ from its setters
C19_Witness ==
  /\ call.op = "loadSetters"
  /\ call.warn
  /\ KeySet(call.methods["setterMethods"]) = Names
  /\ Cardinality(call.fresh) = 1
  /\ Len(Warnings(events)) = 1
  /\ Model.prototype.customGetters # Model.prototype.customSetters

\* C20: a call of loadPrototypes or of loadStatics leaves _hasCustomGetters
\* and _hasCustomSetters as they were.
C20_NoCountForPrototypesAndStatics ==
  [][call'.op \in {"loadPrototypes", "loadStatics"}
       => /\ Model'.prototype.hasCustomGetters = Model.prototype.hasCustomGetters
          /\ Model'.prototype.hasCustomSetters = Model.prototype.hasCustomSetters]_vars

\* loadPrototypes loaded one new method and replaced one, on a Model with one
\* getter and one setter
C20_Witness ==
  /\ call.op = "loadPrototypes"
  /\ KeySet(call.methods["prototypeMethods"]) = Names
  /\ call.fresh = {<<"prototype", "url">>}
  /\ ~threw
  /\ Model.prototype.hasCustomGetters = 1
  /\ Model.prototype.hasCustomSetters = 1

\* the warnings of a trace about a location, as the names they are about
WarnedNames(trace, location) ==
  LET about == SelectSeq(trace, LAMBDA e : e.kind = "warn" /\ e.loc = location)
  IN  [i \in 1..Len(about) |-> about[i].name]

\* the set of the messages of a trace
Messages(trace) == {trace[i].msg : i \in {k \in 1..Len(trace) : trace[k].kind = "warn"}}

\* C21: loadGetters on a Model without getters leaves exactly the given
\* getters, counts as many as were given and emits no warning.
C21_GettersIntoEmptyRegion ==
  [][(call'.op = "loadGetters" /\ DOMAIN Model.prototype.customGetters = {})
       => LET given == call'.methods["getterMethods"]
          IN  /\ DOMAIN Model'.prototype.customGetters = KeySet(given)
              /\ \A n \in KeySet(given) :
                   Model'.prototype.customGetters[n] = Get(given, n)
              /\ Model'.prototype.hasCustomGetters = Len(given)
              /\ Len(Warnings(events')) = 0]_vars

\* loadGetters loaded two getters, with warn = true, into a Model without
\* getters
C21_Witness ==
  /\ call.op = "loadGetters"
  /\ call.warn
  /\ Len(call.methods["getterMethods"]) = 2
  /\ call.fresh = {<<"getterMethods", n>> : n \in Names}
  /\ Model.prototype.hasCustomGetters = 2
  /\ Len(Warnings(events)) = 0

\* C22: a call leaves the methods argument, and each Named Method Object in
\* it, as it was given, so that loading what it left onto a Model equal to
\* the one it was given has the same result.
C22_MethodsNotMutated ==
  [][call'.op # "none"
       => /\ call'.left = call'.methods
          /\ \A again \in {Run(call'.op, Model, call'.left, call'.warn)} :
               /\ again.Model = Model'
               /\ again.events = events'
               /\ again.threw = threw']_vars

\* loadExternalMethods loaded all four Named Method Objects, two methods
\* each, overriding some
C22_Witness ==
  /\ call.op = "loadExternalMethods"
  /\ DOMAIN call.methods = Categories
  /\ \A c \in Categories : Len(call.methods[c]) = 2 /\ call.left[c] = call.methods[c]
  /\ Len(Warnings(events)) > 0
  /\ ~threw

\* C23: the warnings of a call about a location are those about the given
\* names that exist in it, one each, in the order of the given object; and
\* the warnings of loadExternalMethods come location by location, in the
\* order getterMethods, setterMethods, prototype, static.
C23_WarningsInInputOrder ==
  [][(call'.op # "none" /\ call'.warn)
       => /\ \A location \in LocationSet :
               WarnedNames(events', location)
                 = SelectSeq(ObjectKeys(Loaded(call', location)),
                             LAMBDA n : n \in RegionNames(Model, location))
          /\ \A i, j \in 1..Len(Warnings(events')) :
               i < j => Rank(Warnings(events')[i].loc) <= Rank(Warnings(events')[j].loc)]_vars

\* C25: a method that loadPrototypes loads under a name that Model.prototype
\* did not have is an enumerable property of Model.prototype holding that
\* method.
C25_LoadedPrototypeEnumerable ==
  [][call'.op = "loadPrototypes"
       => \A n \in WritesInto(events', "prototype") :
            ~HasProperty(Model.prototype.members, n)
              => /\ Resolve(Model'.prototype.members, n)
                      = Get(call'.methods["prototypeMethods"], n)
                 /\ Model'.prototype.members[n].enumerable]_vars

\* C26: a call does not throw, the same call made again does not throw
\* either, and it leaves the Model as the first one left it.
C26_SameInputTwice ==
  [][call'.op # "none"
       => LET again == Run(call'.op, Model', call'.methods, call'.warn)
          IN  /\ ~threw'
              /\ ~again.threw
              /\ again.Model = Model']_vars

\* C27: for a loader and two given objects without a common name, loading
\* one and then the other leaves the same Model, and emits the same set of
\* warnings, as loading them the other way round.
C27_DisjointLoadsCommute ==
  [][call'.op \in Loaders
       => LET c == CategoryOf(call'.op)
              M1 == call'.methods[c]
          IN  \A M2 \in {m \in Mappings : m # <<>> /\ KeySet(M1) \cap KeySet(m) = {}} :
                M1 # <<>>
                  => LET ab == Run(call'.op, Model', Only(c, M2), call'.warn)
                         b == Run(call'.op, Model, Only(c, M2), call'.warn)
                         ba == Run(call'.op, b.Model, Only(c, M1), call'.warn)
                     IN  /\ ab.Model = ba.Model
                         /\ Messages(events') \cup Messages(ab.events)
                              = Messages(b.events) \cup Messages(ba.events)]_vars

\* loadPrototypes loaded url and then, in a second call, findById over an
\* existing method, with a warning
C27_Witness ==
  /\ call.op = "loadPrototypes"
  /\ call.warn
  /\ KeySet(call.methods["prototypeMethods"]) = {"findById"}
  /\ prev.op = "loadPrototypes"
  /\ prev.keys = {"url"}
  /\ prev.fresh = {<<"prototype", "url">>}
  /\ Len(Warnings(events)) = 1
  /\ ~threw

\* the iterations and returns a running call still has to make
Remaining ==
  IF pc.stage \in {"idle", "done"}
    THEN 0
    ELSE LET Work(location) == Len(Loaded(call, location)) + 1
             later == IF call.op = "loadExternalMethods"
                        THEN {l \in LocationSet : Rank(l) > Rank(pc.stage)}
                        ELSE {}
             Sum[S \in SUBSET LocationSet] ==
               IF S = {} THEN 0
                         ELSE LET l == CHOOSE x \in S : TRUE
                              IN  Work(l) + Sum[S \ {l}]
         IN  (Work(pc.stage) + 1 - pc.i) + Sum[later]

\* C24: a call that has started comes to its end, and every statement it
\* runs leaves fewer iterations and returns to make: one pass over the given
\* methods, never the same entry twice.
C24_EveryCallReturns ==
  /\ (pc.stage \notin {"idle", "done"}) ~> (pc.stage = "done")
  /\ [][pc.stage \notin {"idle", "done"} => Remaining' < Remaining]_vars

\* loadExternalMethods went through all four loaders, two methods each, and
\* returned
C24_Witness ==
  /\ pc.stage = "done"
  /\ call.op = "loadExternalMethods"
  /\ DOMAIN call.methods = Categories
  /\ \A c \in Categories : Len(call.methods[c]) = 2
  /\ Len(Writes(events)) = 8
  /\ ~threw

====
